---- MODULE Spec2Model ----
(***************************************************************************)
(* The process watcher of northstar/src/runtime/process.rs: waitpid() and  *)
(* the exit handle (a tokio mpsc channel of capacity 1), together with the *)
(* environment they talk to: the kernel's wait call, the holder of the     *)
(* Wait half, the main event channel and its consumer (the event loop).    *)
(***************************************************************************)
EXTENDS Integers, Sequences, FiniteSets, TLC

(* ----------------------------- bounds ---------------------------------- *)
\* wait::waitpid calls one watcher may issue before the model stops it
MaxWaits == 5
\* capacity of the main event channel (created outside process.rs)
EventCap == 1

\* wait::waitpid calls each of two concurrent watchers still issues
MultiWaits == 1

(* ----------------------------- inputs ---------------------------------- *)
Watchers == {1, 2}
Names == {"hello", "cpueater"}
ExitCodes == {0, 17}
Signals == {9, 15}
Errnos == {"EINTR", "ECHILD", "EINVAL"}
\* values of type Pid (u32) as <<high 16 bits, low 16 bits>>: 0, 1, 4242,
\* 2^31 - 1, 2^31 + 4242, 2^32 - 1
Pids == {<<0, 0>>, <<0, 1>>, <<0, 4242>>, <<32767, 65535>>, <<32768, 4242>>, <<65535, 65535>>}

\* nix::sys::wait::WaitStatus, wrapped in the Result of wait::waitpid
WaitResults ==
    {<<"Exited", c>> : c \in ExitCodes}
    \cup {<<"Signaled", s, d>> : s \in Signals, d \in BOOLEAN}
    \cup {<<"Stopped", s>> : s \in Signals}
    \cup {<<"PtraceEvent">>, <<"PtraceSyscall">>, <<"Continued">>, <<"StillAlive">>}
    \cup {<<"Err", e>> : e \in Errnos}

NoResult == <<"NoResult">>
NoStatus == <<"NoStatus">>
None == <<"None">>

\* enum ExitStatus
ExitStatus == {<<"Exit", c>> : c \in ExitCodes} \cup {<<"Signaled", s>> : s \in Signals}

\* ExitEvent with the outcome replaced by a fixed one
ExitEventFixedStatus(w, n, s) == [src |-> w, kind |-> "Exit", name |-> n, status |-> <<"Exit", 0>>]

\* Event::Exit(name, status); src is the watcher that built it (a label the
\* model keeps to tell the producers apart, not a field of the event)
ExitEvent(w, n, s) == [src |-> w, kind |-> "Exit", name |-> n, status |-> s]
\* an event of another producer of the main event channel
OtherEvent == [src |-> 0, kind |-> "Other", name |-> "", status |-> NoStatus]

WaitpidPanic == "Failed to waitpid"
EventPanic == "Internal channel error on main event handle"

(* ------------------------------ state ---------------------------------- *)
VARIABLES
    caller,        \* position of the caller of waitpid(): "absent" (no such call), "init", "spawned", "returned"
    pid,           \* the pid given to waitpid, a u32 as <<high half, low half>>
    waitedOn,      \* <<the process id the last wait::waitpid call handed to the kernel>>
    joinHandle,    \* JoinHandle of spawn_blocking: "none", "held", "dropped"
    pc,            \* position of the closure: "unspawned", "wait", "send_exit", "send_event", "done", "panicked"
    name,          \* the name given to waitpid
    lastResult,    \* result of the last wait::waitpid call
    calls,         \* number of wait::waitpid calls issued
    retries,       \* number of `continue`s taken
    status,        \* the value the loop broke with
    panicMsg,      \* message of the panic that ended the closure, "" if none
    sigAlive,      \* the Signal half (ExitHandleSignal) has not been dropped
    waitSide,      \* holder of the Wait half: "idle", "receiving", "dropped"
    exitBuf,       \* values buffered in the exit handle channel
    received,      \* what the recv() calls of the Wait half resolved to, in order
    exitSent,      \* values passed to exit_handle.blocking_send, in order
    exitResult,    \* result of the exit handle send: "none", "ok", "closed"
    eventSent,     \* events the watcher put into the main event channel, in order
    eventResult,   \* result of the event send: "none", "ok", "closed"
    blocked,       \* the event send found the channel full and had to wait
    eventQ,        \* the main event channel's buffer
    eventRxAlive,  \* the receiver of the main event channel exists
    delivered,     \* Exit events the event loop has taken out, in order
    containersIn,  \* pretty::containers: the containers given
    sorted,        \* pretty::containers: the iterator the for loop runs over
    table,         \* pretty::containers: the rows added to the table
    tpc            \* pretty::containers: "idle", "start", "rows", "print", "done"

vars == <<caller, pid, waitedOn, containersIn, sorted, table, tpc, joinHandle, pc, name, lastResult, calls, retries, status,
          panicMsg, sigAlive, waitSide, exitBuf, received, exitSent, exitResult,
          eventSent, eventResult, blocked, eventQ, eventRxAlive, delivered>>

callerVars == <<caller, joinHandle>>
loopVars == <<lastResult, calls, retries, status>>
waitVars == <<waitSide, received>>
exitVars == <<exitBuf, exitSent, exitResult>>
sinkVars == <<eventQ, eventRxAlive, delivered>>
eventVars == <<eventSent, eventResult, blocked>>
prettyVars == <<containersIn, sorted, table, tpc>>

\* a pid as any running process has one
TypicalPid == <<0, 4242>>
NoPid == <<>>

\* no call of pretty::containers is under way
TableIdle ==
    /\ containersIn = <<>>
    /\ sorted = <<>>
    /\ table = <<>>
    /\ tpc = "idle"

\* the state before waitpid is called for the processes of ws: their exit
\* handles exist, nothing else has happened; no handle exists for the others
Fresh(ws) ==
    /\ caller = [w \in Watchers |-> IF w \in ws THEN "init" ELSE "absent"]
    /\ waitedOn = [w \in Watchers |-> NoPid]
    /\ joinHandle = [w \in Watchers |-> "none"]
    /\ pc = [w \in Watchers |-> "unspawned"]
    /\ name = [w \in Watchers |-> ""]
    /\ lastResult = [w \in Watchers |-> NoResult]
    /\ calls = [w \in Watchers |-> 0]
    /\ retries = [w \in Watchers |-> 0]
    /\ status = [w \in Watchers |-> NoStatus]
    /\ panicMsg = [w \in Watchers |-> ""]
    /\ sigAlive = [w \in Watchers |-> w \in ws]
    /\ waitSide = [w \in Watchers |-> IF w \in ws THEN "idle" ELSE "dropped"]
    /\ exitBuf = [w \in Watchers |-> <<>>]
    /\ received = [w \in Watchers |-> <<>>]
    /\ exitSent = [w \in Watchers |-> <<>>]
    /\ exitResult = [w \in Watchers |-> "none"]
    /\ eventSent = [w \in Watchers |-> <<>>]
    /\ eventResult = [w \in Watchers |-> "none"]
    /\ blocked = [w \in Watchers |-> FALSE]
    /\ eventQ = <<>>
    /\ eventRxAlive = TRUE
    /\ delivered = <<>>

\* one process is about to be watched
Init ==
    /\ Fresh({1})
    /\ pid = [w \in Watchers |-> TypicalPid]
    /\ TableIdle

(* --------------------------- pure helpers ------------------------------ *)
\* capacity of the channel exit_handle() creates
ExitHandleCap == 1

\* Classify without the EINTR guard arm: every error panics
ClassifyNoEintr(r) ==
    CASE r[1] = "Exited" -> <<"break", <<"Exit", r[2]>>>>
      [] r[1] = "Signaled" -> <<"break", <<"Signaled", r[2]>>>>
      [] r[1] = "Err" -> <<"panic">>
      [] OTHER -> <<"continue">>

\* Classify reporting a failed wait call as an exit with code 0
ClassifyFabricates(r) ==
    CASE r[1] = "Exited" -> <<"break", <<"Exit", r[2]>>>>
      [] r[1] = "Signaled" -> <<"break", <<"Signaled", r[2]>>>>
      [] r[1] = "Err" /\ r[2] = "EINTR" -> <<"continue">>
      [] r[1] = "Err" -> <<"break", <<"Exit", 0>>>>
      [] OTHER -> <<"continue">>

\* Classify taking a stop by a signal for a termination by that signal
ClassifyStoppedTerminal(r) ==
    CASE r[1] = "Exited" -> <<"break", <<"Exit", r[2]>>>>
      [] r[1] \in {"Signaled", "Stopped"} -> <<"break", <<"Signaled", r[2]>>>>
      [] r[1] = "Err" /\ r[2] = "EINTR" -> <<"continue">>
      [] r[1] = "Err" -> <<"panic">>
      [] OTHER -> <<"continue">>

\* Classify retrying on every error of the wait call
ClassifyRetriesAll(r) ==
    CASE r[1] = "Exited" -> <<"break", <<"Exit", r[2]>>>>
      [] r[1] = "Signaled" -> <<"break", <<"Signaled", r[2]>>>>
      [] OTHER -> <<"continue">>

\* the match of the loop body: what one wait result makes the loop do
Classify(r) ==
    CASE r[1] = "Exited" -> <<"break", <<"Exit", r[2]>>>>
      [] r[1] = "Signaled" -> <<"break", <<"Signaled", r[2]>>>>
      [] r[1] = "Stopped" -> <<"continue">>
      [] r[1] = "PtraceEvent" -> <<"continue">>
      [] r[1] = "PtraceSyscall" -> <<"continue">>
      [] r[1] = "Continued" -> <<"continue">>
      [] r[1] = "StillAlive" -> <<"continue">>
      [] r[1] = "Err" /\ r[2] = "EINTR" -> <<"continue">>
      [] r[1] = "Err" -> <<"panic">>

\* `pid as i32` of a u32 given as <<high half, low half>>: the same 32 bits
\* read as a two's complement number
AsI32(p) == IF p[1] >= 32768 THEN (p[1] - 65536) * 65536 + p[2] ELSE p[1] * 65536 + p[2]

\* unistd::Pid::from_raw keeps the number as it is
FromRaw(i) == i

\* tokio mpsc Sender::blocking_send: an error when the receiver is gone,
\* otherwise the value is buffered once the channel has room
BlockingSend(rxAlive, len, cap) ==
    IF ~rxAlive THEN "closed"
    ELSE IF len < cap THEN "ok"
    ELSE "full"

(* ----------------------------- waitpid --------------------------------- *)
\* waitpid(): name.to_string() and task::spawn_blocking(closure)
Spawn(w) ==
    /\ caller[w] = "init"
    /\ \E n \in Names : name' = [name EXCEPT ![w] = n]
    /\ caller' = [caller EXCEPT ![w] = "spawned"]
    /\ joinHandle' = [joinHandle EXCEPT ![w] = "held"]
    /\ pc' = [pc EXCEPT ![w] = "wait"]
    /\ UNCHANGED <<pid, waitedOn, prettyVars>>
    /\ UNCHANGED <<loopVars, panicMsg, sigAlive, waitVars, exitVars, eventVars, sinkVars>>

\* waitpid() awaiting the JoinHandle: it returns once the closure has ended
ReturnAwaits(w) ==
    /\ caller[w] = "spawned"
    /\ pc[w] \in {"done", "panicked"}
    /\ caller' = [caller EXCEPT ![w] = "returned"]
    /\ joinHandle' = [joinHandle EXCEPT ![w] = "dropped"]
    /\ UNCHANGED <<pid, waitedOn, prettyVars>>
    /\ UNCHANGED <<pc, name, loopVars, panicMsg, sigAlive, waitVars, exitVars, eventVars, sinkVars>>

\* the end of the statement drops the JoinHandle and waitpid() returns
Return(w) ==
    /\ caller[w] = "spawned"
    /\ caller' = [caller EXCEPT ![w] = "returned"]
    /\ joinHandle' = [joinHandle EXCEPT ![w] = "dropped"]
    /\ UNCHANGED <<pid, waitedOn, prettyVars>>
    /\ UNCHANGED <<pc, name, loopVars, panicMsg, sigAlive, waitVars, exitVars, eventVars, sinkVars>>

\* one iteration of the loop: wait::waitpid(Some(pid), None), with the pid
\* of unistd::Pid::from_raw(pid as i32), and the match
WaitStep(w) ==
    /\ pc[w] = "wait"
    /\ calls[w] < MaxWaits
    /\ \E r \in WaitResults :
        LET c == Classify(r) IN
        /\ waitedOn' = [waitedOn EXCEPT ![w] = <<FromRaw(AsI32(pid[w]))>>]
        /\ lastResult' = [lastResult EXCEPT ![w] = r]
        /\ calls' = [calls EXCEPT ![w] = @ + 1]
        /\ CASE c[1] = "break" ->
                  /\ status' = [status EXCEPT ![w] = c[2]]
                  /\ pc' = [pc EXCEPT ![w] = "send_exit"]
                  /\ UNCHANGED <<retries, panicMsg, sigAlive>>
             [] c[1] = "continue" ->
                  /\ retries' = [retries EXCEPT ![w] = @ + 1]
                  /\ UNCHANGED <<pc, status, panicMsg, sigAlive>>
             [] c[1] = "panic" ->
                  \* the panic unwinds the closure, which drops what it
                  \* captured, and ends the blocking task; tokio keeps the
                  \* panic for whoever holds the task's JoinHandle
                  /\ pc' = [pc EXCEPT ![w] = "panicked"]
                  /\ panicMsg' = [panicMsg EXCEPT ![w] = WaitpidPanic]
                  /\ sigAlive' = [sigAlive EXCEPT ![w] = FALSE]
                  /\ UNCHANGED <<retries, status>>
    /\ UNCHANGED <<pid, prettyVars>>
    /\ UNCHANGED <<callerVars, name, waitVars, exitVars, eventVars, sinkVars>>

\* the closure without the send on the exit handle
ExitSendOmitted(w) ==
    /\ pc[w] = "send_exit"
    /\ pc' = [pc EXCEPT ![w] = "send_event"]
    /\ UNCHANGED <<pid, waitedOn, prettyVars>>
    /\ UNCHANGED <<callerVars, name, loopVars, panicMsg, sigAlive, waitVars, exitVars, eventVars, sinkVars>>

\* ExitSend with .unwrap() in the place of .ok()
ExitSendUnwrap(w) ==
    /\ pc[w] = "send_exit"
    /\ LET r == BlockingSend(waitSide[w] # "dropped", Len(exitBuf[w]), ExitHandleCap) IN
        /\ r # "full"
        /\ exitSent' = [exitSent EXCEPT ![w] = Append(@, status[w])]
        /\ exitResult' = [exitResult EXCEPT ![w] = r]
        /\ exitBuf' = [exitBuf EXCEPT ![w] = IF r = "ok" THEN Append(@, status[w]) ELSE @]
        /\ IF r = "ok"
           THEN /\ pc' = [pc EXCEPT ![w] = "send_event"]
                /\ UNCHANGED <<panicMsg, sigAlive>>
           ELSE /\ pc' = [pc EXCEPT ![w] = "panicked"]
                /\ panicMsg' = [panicMsg EXCEPT ![w] = "called Result::unwrap() on an Err value"]
                /\ sigAlive' = [sigAlive EXCEPT ![w] = FALSE]
    /\ UNCHANGED <<pid, waitedOn, prettyVars>>
    /\ UNCHANGED <<callerVars, name, loopVars, waitVars, eventVars, sinkVars>>

\* the closure sending the event first: the exit handle send has to wait
\* for the event channel to take the event
ExitSendWaitsForSink(w) ==
    /\ pc[w] = "send_exit"
    /\ BlockingSend(eventRxAlive, Len(eventQ), EventCap) # "full"
    /\ LET r == BlockingSend(waitSide[w] # "dropped", Len(exitBuf[w]), ExitHandleCap) IN
        /\ r # "full"
        /\ exitSent' = [exitSent EXCEPT ![w] = Append(@, status[w])]
        /\ exitResult' = [exitResult EXCEPT ![w] = r]
        /\ exitBuf' = [exitBuf EXCEPT ![w] = IF r = "ok" THEN Append(@, status[w]) ELSE @]
    /\ pc' = [pc EXCEPT ![w] = "send_event"]
    /\ UNCHANGED <<pid, waitedOn, prettyVars>>
    /\ UNCHANGED <<callerVars, name, loopVars, panicMsg, sigAlive, waitVars, eventVars, sinkVars>>

\* ExitSend returning from the closure when no one listens on the exit handle
ExitSendStopsOnClosed(w) ==
    /\ pc[w] = "send_exit"
    /\ LET r == BlockingSend(waitSide[w] # "dropped", Len(exitBuf[w]), ExitHandleCap) IN
        /\ r # "full"
        /\ exitSent' = [exitSent EXCEPT ![w] = Append(@, status[w])]
        /\ exitResult' = [exitResult EXCEPT ![w] = r]
        /\ exitBuf' = [exitBuf EXCEPT ![w] = IF r = "ok" THEN Append(@, status[w]) ELSE @]
        /\ pc' = [pc EXCEPT ![w] = IF r = "ok" THEN "send_event" ELSE "done"]
        /\ sigAlive' = [sigAlive EXCEPT ![w] = (r = "ok")]
    /\ UNCHANGED <<pid, waitedOn, prettyVars>>
    /\ UNCHANGED <<callerVars, name, loopVars, panicMsg, waitVars, eventVars, sinkVars>>

\* ExitSend sending the outcome on the exit handle a second time
ExitSendTwice(w) ==
    /\ pc[w] = "send_exit"
    /\ LET r == BlockingSend(waitSide[w] # "dropped", Len(exitBuf[w]), ExitHandleCap) IN
        /\ r # "full"
        /\ exitSent' = [exitSent EXCEPT ![w] = Append(@, status[w])]
        /\ exitResult' = [exitResult EXCEPT ![w] = r]
        /\ exitBuf' = [exitBuf EXCEPT ![w] = IF r = "ok" THEN Append(@, status[w]) ELSE @]
    /\ pc' = [pc EXCEPT ![w] = IF Len(exitSent[w]) = 0 THEN "send_exit" ELSE "send_event"]
    /\ UNCHANGED <<pid, waitedOn, prettyVars>>
    /\ UNCHANGED <<callerVars, name, loopVars, panicMsg, sigAlive, waitVars, eventVars, sinkVars>>

\* exit_handle.blocking_send(status.clone()).ok()
ExitSend(w) ==
    /\ pc[w] = "send_exit"
    /\ LET r == BlockingSend(waitSide[w] # "dropped", Len(exitBuf[w]), ExitHandleCap) IN
        /\ r # "full"
        /\ exitSent' = [exitSent EXCEPT ![w] = Append(@, status[w])]
        /\ exitResult' = [exitResult EXCEPT ![w] = r]
        /\ exitBuf' = [exitBuf EXCEPT ![w] = IF r = "ok" THEN Append(@, status[w]) ELSE @]
    /\ pc' = [pc EXCEPT ![w] = "send_event"]
    /\ UNCHANGED <<pid, waitedOn, prettyVars>>
    /\ UNCHANGED <<callerVars, name, loopVars, panicMsg, sigAlive, waitVars, eventVars, sinkVars>>

\* EventSend sending the event a second time
EventSendAgain(w) ==
    /\ pc[w] = "send_event"
    /\ LET r == BlockingSend(eventRxAlive, Len(eventQ), EventCap)
           e == ExitEvent(w, name[w], status[w]) IN
        /\ r # "full"
        /\ eventResult' = [eventResult EXCEPT ![w] = r]
        /\ IF r = "ok"
           THEN /\ eventQ' = Append(eventQ, e)
                /\ eventSent' = [eventSent EXCEPT ![w] = Append(@, e)]
                /\ pc' = [pc EXCEPT ![w] = IF Len(eventSent[w]) = 0 THEN "send_event" ELSE "done"]
                /\ sigAlive' = [sigAlive EXCEPT ![w] = (Len(eventSent[w]) = 0)]
                /\ UNCHANGED panicMsg
           ELSE /\ pc' = [pc EXCEPT ![w] = "panicked"]
                /\ panicMsg' = [panicMsg EXCEPT ![w] = EventPanic]
                /\ sigAlive' = [sigAlive EXCEPT ![w] = FALSE]
                /\ UNCHANGED <<eventQ, eventSent>>
    /\ UNCHANGED <<pid, waitedOn, prettyVars>>
    /\ UNCHANGED <<callerVars, name, loopVars, waitVars, exitVars, blocked, eventRxAlive, delivered>>

\* EventSend with .ok() in the place of .expect(..)
EventSendSwallow(w) ==
    /\ pc[w] = "send_event"
    /\ LET r == BlockingSend(eventRxAlive, Len(eventQ), EventCap)
           e == ExitEvent(w, name[w], status[w]) IN
        /\ r # "full"
        /\ eventResult' = [eventResult EXCEPT ![w] = r]
        /\ eventQ' = IF r = "ok" THEN Append(eventQ, e) ELSE eventQ
        /\ eventSent' = [eventSent EXCEPT ![w] = IF r = "ok" THEN Append(@, e) ELSE @]
    /\ pc' = [pc EXCEPT ![w] = "done"]
    /\ sigAlive' = [sigAlive EXCEPT ![w] = FALSE]
    /\ UNCHANGED <<pid, waitedOn, prettyVars>>
    /\ UNCHANGED <<callerVars, name, loopVars, panicMsg, waitVars, exitVars, blocked, eventRxAlive, delivered>>

\* EventSend with try_send: the event is given up when the channel is full
EventSendTrySend(w) ==
    /\ pc[w] = "send_event"
    /\ LET r == BlockingSend(eventRxAlive, Len(eventQ), EventCap)
           e == ExitEvent(w, name[w], status[w]) IN
        /\ eventResult' = [eventResult EXCEPT ![w] = IF r = "full" THEN "ok" ELSE r]
        /\ IF r = "closed"
           THEN /\ pc' = [pc EXCEPT ![w] = "panicked"]
                /\ panicMsg' = [panicMsg EXCEPT ![w] = EventPanic]
                /\ UNCHANGED <<eventQ, eventSent>>
           ELSE /\ eventQ' = IF r = "ok" THEN Append(eventQ, e) ELSE eventQ
                /\ eventSent' = [eventSent EXCEPT ![w] = IF r = "ok" THEN Append(@, e) ELSE @]
                /\ pc' = [pc EXCEPT ![w] = "done"]
                /\ UNCHANGED panicMsg
    /\ sigAlive' = [sigAlive EXCEPT ![w] = FALSE]
    /\ UNCHANGED <<pid, waitedOn, prettyVars>>
    /\ UNCHANGED <<callerVars, name, loopVars, waitVars, exitVars, blocked, eventRxAlive, delivered>>

\* EventSend inside the loop: after the event the closure waits again
EventSendRewaits(w) ==
    /\ pc[w] = "send_event"
    /\ LET r == BlockingSend(eventRxAlive, Len(eventQ), EventCap)
           e == ExitEvent(w, name[w], status[w]) IN
        /\ r # "full"
        /\ eventResult' = [eventResult EXCEPT ![w] = r]
        /\ IF r = "ok"
           THEN /\ eventQ' = Append(eventQ, e)
                /\ eventSent' = [eventSent EXCEPT ![w] = Append(@, e)]
                /\ pc' = [pc EXCEPT ![w] = IF calls[w] < MaxWaits THEN "wait" ELSE "done"]
                /\ sigAlive' = [sigAlive EXCEPT ![w] = ~(calls[w] < MaxWaits)]
                /\ UNCHANGED panicMsg
           ELSE /\ pc' = [pc EXCEPT ![w] = "panicked"]
                /\ panicMsg' = [panicMsg EXCEPT ![w] = EventPanic]
                /\ sigAlive' = [sigAlive EXCEPT ![w] = FALSE]
                /\ UNCHANGED <<eventQ, eventSent>>
    /\ UNCHANGED <<pid, waitedOn, prettyVars>>
    /\ UNCHANGED <<callerVars, name, loopVars, waitVars, exitVars, blocked, eventRxAlive, delivered>>

\* event_handle.blocking_send(Event::Exit(name, status)).expect(..), then
\* the end of the closure, which drops the handles
EventSend(w) ==
    /\ pc[w] = "send_event"
    /\ LET r == BlockingSend(eventRxAlive, Len(eventQ), EventCap)
           e == ExitEvent(w, name[w], status[w]) IN
        /\ r # "full"
        /\ eventResult' = [eventResult EXCEPT ![w] = r]
        /\ IF r = "ok"
           THEN /\ eventQ' = Append(eventQ, e)
                /\ eventSent' = [eventSent EXCEPT ![w] = Append(@, e)]
                /\ pc' = [pc EXCEPT ![w] = "done"]
                /\ UNCHANGED panicMsg
           ELSE /\ pc' = [pc EXCEPT ![w] = "panicked"]
                /\ panicMsg' = [panicMsg EXCEPT ![w] = EventPanic]
                /\ UNCHANGED <<eventQ, eventSent>>
    /\ sigAlive' = [sigAlive EXCEPT ![w] = FALSE]
    /\ UNCHANGED <<pid, waitedOn, prettyVars>>
    /\ UNCHANGED <<callerVars, name, loopVars, waitVars, exitVars, blocked, eventRxAlive, delivered>>

\* event_handle.blocking_send finds the channel full: the thread of the
\* closure is parked until the channel has room or is closed
EventSendBlocks(w) ==
    /\ pc[w] = "send_event"
    /\ ~blocked[w]
    /\ BlockingSend(eventRxAlive, Len(eventQ), EventCap) = "full"
    /\ blocked' = [blocked EXCEPT ![w] = TRUE]
    /\ UNCHANGED <<pid, waitedOn, prettyVars>>
    /\ UNCHANGED <<callerVars, pc, name, loopVars, panicMsg, sigAlive, waitVars, exitVars,
                   eventSent, eventResult, sinkVars>>

(* ------------------------ holder of the Wait half ---------------------- *)
\* the holder calls recv() on the ExitHandleWait
StartReceive(w) ==
    /\ waitSide[w] = "idle"
    /\ IF received[w] = <<>> THEN TRUE ELSE received[w][Len(received[w])] # None
    /\ waitSide' = [waitSide EXCEPT ![w] = "receiving"]
    /\ UNCHANGED <<pid, waitedOn, prettyVars>>
    /\ UNCHANGED <<callerVars, pc, name, loopVars, panicMsg, sigAlive, received, exitVars, eventVars, sinkVars>>

\* recv() resolves: a buffered value, or None once the sender is gone
ResolveReceive(w) ==
    /\ waitSide[w] = "receiving"
    /\ \/ /\ exitBuf[w] # <<>>
          /\ received' = [received EXCEPT ![w] = Append(@, Head(exitBuf[w]))]
          /\ exitBuf' = [exitBuf EXCEPT ![w] = Tail(@)]
       \/ /\ exitBuf[w] = <<>>
          /\ ~sigAlive[w]
          /\ received' = [received EXCEPT ![w] = Append(@, None)]
          /\ UNCHANGED exitBuf
    /\ waitSide' = [waitSide EXCEPT ![w] = "idle"]
    /\ UNCHANGED <<pid, waitedOn, prettyVars>>
    /\ UNCHANGED <<callerVars, pc, name, loopVars, panicMsg, sigAlive, exitSent, exitResult, eventVars, sinkVars>>

\* the holder drops the ExitHandleWait, abandoning a pending recv()
DropWait(w) ==
    /\ waitSide[w] # "dropped"
    /\ waitSide' = [waitSide EXCEPT ![w] = "dropped"]
    /\ exitBuf' = [exitBuf EXCEPT ![w] = <<>>]
    /\ UNCHANGED <<pid, waitedOn, prettyVars>>
    /\ UNCHANGED <<callerVars, pc, name, loopVars, panicMsg, sigAlive, received, exitSent, exitResult, eventVars, sinkVars>>

(* ------------------------- main event channel -------------------------- *)
\* the event loop takes the next event out of the channel
EventLoopRecv ==
    /\ eventRxAlive
    /\ eventQ # <<>>
    /\ delivered' = IF Head(eventQ).kind = "Exit" THEN Append(delivered, Head(eventQ)) ELSE delivered
    /\ eventQ' = Tail(eventQ)
    /\ UNCHANGED <<pid, waitedOn, prettyVars>>
    /\ UNCHANGED <<callerVars, pc, name, loopVars, panicMsg, sigAlive, waitVars, exitVars, eventVars, eventRxAlive>>

\* the event loop ends and drops the receiver
EventLoopClose ==
    /\ eventRxAlive
    /\ eventRxAlive' = FALSE
    /\ eventQ' = <<>>
    /\ UNCHANGED <<pid, waitedOn, prettyVars>>
    /\ UNCHANGED <<callerVars, pc, name, loopVars, panicMsg, sigAlive, waitVars, exitVars, eventVars, delivered>>

\* another producer of the runtime puts an event into the channel
OtherSend ==
    /\ BlockingSend(eventRxAlive, Len(eventQ), EventCap) = "ok"
    /\ eventQ' = Append(eventQ, OtherEvent)
    /\ UNCHANGED <<pid, waitedOn, prettyVars>>
    /\ UNCHANGED <<callerVars, pc, name, loopVars, panicMsg, sigAlive, waitVars, exitVars, eventVars, eventRxAlive, delivered>>

Next ==
    \/ \E w \in Watchers : Spawn(w)
    \/ \E w \in Watchers : Return(w)
    \/ \E w \in Watchers : WaitStep(w)
    \/ \E w \in Watchers : ExitSend(w)
    \/ \E w \in Watchers : EventSendBlocks(w)
    \/ \E w \in Watchers : EventSend(w)
    \/ \E w \in Watchers : StartReceive(w)
    \/ \E w \in Watchers : ResolveReceive(w)
    \/ \E w \in Watchers : DropWait(w)
    \/ EventLoopRecv
    \/ EventLoopClose
    \/ OtherSend

Spec == Init /\ [][Next]_vars

\* the tokio runtime wakes a pending recv() once a value is buffered or the
\* channel is closed
FairSpec == Spec /\ \A w \in Watchers : WF_vars(ResolveReceive(w))

(* ------------------------- any pid of type Pid -------------------------- *)
\* one process is about to be watched, under any value of the pid argument
PidInit ==
    /\ Fresh({1})
    /\ pid \in {[w \in Watchers |-> IF w = 1 THEN p ELSE TypicalPid] : p \in Pids}
    /\ TableIdle

PidSpec == PidInit /\ [][Next]_vars

(* ----------------------- two concurrent watchers ------------------------ *)
\* waitpid has been called for two processes with the same event_handle
\* (cloned) and different names; both closures are in their loops, each
\* with MaxWaits - MultiWaits retries behind it
MultiInit ==
    LET k == MaxWaits - MultiWaits IN
    /\ caller = [w \in Watchers |-> "returned"]
    /\ pid = [w \in Watchers |-> <<0, 4241 + w>>]
    /\ waitedOn = [w \in Watchers |-> IF k = 0 THEN NoPid ELSE <<FromRaw(AsI32(<<0, 4241 + w>>))>>]
    /\ joinHandle = [w \in Watchers |-> "dropped"]
    /\ pc = [w \in Watchers |-> "wait"]
    /\ name \in {f \in [Watchers -> Names] : \A v, w \in Watchers : v # w => f[v] # f[w]}
    /\ lastResult = [w \in Watchers |-> IF k = 0 THEN NoResult ELSE <<"StillAlive">>]
    /\ calls = [w \in Watchers |-> k]
    /\ retries = [w \in Watchers |-> k]
    /\ status = [w \in Watchers |-> NoStatus]
    /\ panicMsg = [w \in Watchers |-> ""]
    /\ sigAlive = [w \in Watchers |-> TRUE]
    /\ waitSide = [w \in Watchers |-> "idle"]
    /\ exitBuf = [w \in Watchers |-> <<>>]
    /\ received = [w \in Watchers |-> <<>>]
    /\ exitSent = [w \in Watchers |-> <<>>]
    /\ exitResult = [w \in Watchers |-> "none"]
    /\ eventSent = [w \in Watchers |-> <<>>]
    /\ eventResult = [w \in Watchers |-> "none"]
    /\ blocked = [w \in Watchers |-> FALSE]
    /\ eventQ = <<>>
    /\ eventRxAlive = TRUE
    /\ delivered = <<>>
    /\ TableIdle

\* the closures, the event loop and the other producers
MultiNext ==
    \/ \E w \in Watchers : WaitStep(w)
    \/ \E w \in Watchers : ExitSend(w)
    \/ \E w \in Watchers : EventSendBlocks(w)
    \/ \E w \in Watchers : EventSend(w)
    \/ EventLoopRecv
    \/ EventLoopClose
    \/ OtherSend

MultiSpec == MultiInit /\ [][MultiNext]_vars

\* MultiSpec with the fairness of LiveSpec
MultiLiveSpec ==
    /\ MultiSpec
    /\ \A w \in Watchers : WF_vars(ExitSend(w)) /\ SF_vars(EventSend(w))
    /\ WF_vars(EventLoopRecv)

\* the blocking thread of the closure keeps running, and tokio wakes a
\* pending recv(); nothing is assumed of the event loop
WatcherFairSpec ==
    Spec /\ \A w \in Watchers : WF_vars(ExitSend(w)) /\ WF_vars(ResolveReceive(w))

\* the blocking thread of the closure keeps running, a sender waiting for
\* room in the event channel gets it when room is made again and again (the
\* channel serves its waiting senders in turn), and the event loop keeps
\* taking events while there are some
LiveSpec ==
    /\ Spec
    /\ \A w \in Watchers : WF_vars(ExitSend(w)) /\ SF_vars(EventSend(w))
    /\ WF_vars(EventLoopRecv)

(* ------------------------ vocabulary of the claims --------------------- *)
IsTerminal(r) == r[1] \in {"Exited", "Signaled"}
IsTransient(r) ==
    \/ r[1] \in {"Stopped", "Continued", "PtraceEvent", "PtraceSyscall", "StillAlive"}
    \/ (r[1] = "Err" /\ r[2] = "EINTR")
IsFatal(r) == r[1] = "Err" /\ r[2] # "EINTR"
\* the Termination Outcome a terminal wait result stands for
Outcome(r) == IF r[1] = "Exited" THEN <<"Exit", r[2]>> ELSE <<"Signaled", r[2]>>
\* the Exit events of watcher w in a sequence of events
EventsOf(q, w) == SelectSeq(q, LAMBDA e : e.kind = "Exit" /\ e.src = w)
\* the values (not None) the recv() calls of w's Wait half resolved to
ValuesOf(w) == SelectSeq(received[w], LAMBDA v : v # None)
InSink(w) == EventsOf(eventQ, w) # <<>> \/ EventsOf(delivered, w) # <<>>
\* the last recv() of w's Wait half resolved to None
ResolvedNone(w) == received[w] # <<>> /\ received[w][Len(received[w])] = None
\* the four conditions a wait result can leave the watcher in
Retried(w) == pc[w] = "wait" /\ status[w] = NoStatus /\ panicMsg[w] = ""
EndedWith(w, s) == pc[w] \in {"send_exit", "send_event", "done", "panicked"}
                   /\ status[w] = s /\ panicMsg[w] # WaitpidPanic
Aborted(w) == pc[w] = "panicked" /\ status[w] = NoStatus /\ panicMsg[w] = WaitpidPanic

(* C1: whenever the watcher's Exit event is in the event sink, has been     *)
(* consumed from it, or its send has been attempted, the send on the Exit   *)
(* Handle has already completed (buffered, or discarded because the Wait    *)
(* side was gone).                                                          *)
C1_ExitHandleBeforeEvent ==
    \A w \in Watchers :
        (InSink(w) \/ eventSent[w] # <<>> \/ eventResult[w] # "none")
            => (Len(exitSent[w]) >= 1 /\ exitResult[w] \in {"ok", "closed"})

C1_Witness ==
    \E w \in Watchers :
        /\ EventsOf(delivered, w) # <<>>
        /\ exitResult[w] = "ok"
        /\ exitBuf[w] = <<status[w]>>

(* C2: one watcher passes at most one Termination Outcome to its Exit       *)
(* Handle and puts at most one Global Runtime Event into the event sink;    *)
(* neither consumer ever gets an outcome twice.                             *)
C2_AtMostOnce ==
    \A w \in Watchers :
        /\ Len(exitSent[w]) <= 1
        /\ Len(eventSent[w]) <= 1
        /\ Len(exitBuf[w]) + Len(ValuesOf(w)) <= 1
        /\ Len(EventsOf(eventQ, w)) + Len(EventsOf(delivered, w)) <= 1

C2_Witness ==
    \E w \in Watchers :
        /\ Len(ValuesOf(w)) = 1
        /\ Len(EventsOf(delivered, w)) = 1
        /\ pc[w] = "done"

(* C3: after every transient wait result the watcher is back at the wait    *)
(* call with nothing sent to either sink (every call so far was a retry);   *)
(* after the terminal result the loop has ended with exactly that result's  *)
(* outcome, one call after the retries.                                     *)
C3_RetryUntilTerminal ==
    \A w \in Watchers :
        /\ pc[w] = "wait" =>
              /\ retries[w] = calls[w]
              /\ status[w] = NoStatus
              /\ exitSent[w] = <<>> /\ eventSent[w] = <<>> /\ ~InSink(w)
              /\ exitResult[w] = "none" /\ eventResult[w] = "none"
        /\ (lastResult[w] # NoResult /\ IsTransient(lastResult[w])) => pc[w] = "wait"
        /\ (lastResult[w] # NoResult /\ IsTerminal(lastResult[w])) =>
              /\ pc[w] \in {"send_exit", "send_event", "done", "panicked"}
              /\ calls[w] = retries[w] + 1
              /\ status[w] = Outcome(lastResult[w])
              /\ \A i \in DOMAIN exitSent[w] : exitSent[w][i] = Outcome(lastResult[w])
              /\ \A i \in DOMAIN eventSent[w] : eventSent[w][i].status = Outcome(lastResult[w])

C3_Witness ==
    \E w \in Watchers :
        /\ retries[w] = 4
        /\ lastResult[w] = <<"Exited", 17>>
        /\ exitSent[w] = << <<"Exit", 17>> >>
        /\ Len(eventSent[w]) = 1 /\ eventSent[w][1].status = <<"Exit", 17>>

(* C4: once the wait call has failed with an error other than EINTR the     *)
(* watcher has aborted, and it has sent no Termination Outcome on the Exit  *)
(* Handle and no Global Runtime Event, whatever retries came before.        *)
C4_FatalWaitSendsNothing ==
    \A w \in Watchers :
        (lastResult[w] # NoResult /\ IsFatal(lastResult[w])) =>
            /\ pc[w] = "panicked"
            /\ panicMsg[w] = WaitpidPanic
            /\ status[w] = NoStatus
            /\ exitSent[w] = <<>> /\ exitBuf[w] = <<>> /\ ValuesOf(w) = <<>>
            /\ eventSent[w] = <<>> /\ ~InSink(w)

C4_Witness ==
    \E w \in Watchers :
        /\ lastResult[w] = <<"Err", "ECHILD">>
        /\ retries[w] >= 2
        /\ pc[w] = "panicked"
        /\ ~eventRxAlive \/ eventQ # <<>>

(* C5: a dropped Wait half never makes the watcher abort: a send on the     *)
(* Exit Handle that found the Wait half gone leaves the watcher running     *)
(* towards the event send, a watcher only ever aborts on a fatal wait       *)
(* failure or on a closed event sink, and the event it puts into the sink   *)
(* is the one built from its name and the terminal result, whether the      *)
(* Wait half is alive or dropped.                                           *)
C5_DroppedWaitTolerated ==
    \A w \in Watchers :
        /\ exitResult[w] = "closed" =>
              /\ pc[w] \in {"send_event", "done", "panicked"}
              /\ pc[w] = "panicked" => (panicMsg[w] = EventPanic /\ eventResult[w] = "closed")
        /\ pc[w] = "panicked" =>
              \/ (panicMsg[w] = WaitpidPanic /\ IsFatal(lastResult[w]))
              \/ (panicMsg[w] = EventPanic /\ ~eventRxAlive)
        /\ (pc[w] = "done" \/ eventResult[w] = "ok") =>
              /\ IsTerminal(lastResult[w])
              /\ eventSent[w] = <<ExitEvent(w, name[w], Outcome(lastResult[w]))>>

C5_Witness ==
    \E w \in Watchers :
        /\ waitSide[w] = "dropped"
        /\ exitResult[w] = "closed"
        /\ pc[w] = "done"
        /\ EventsOf(delivered, w) = <<ExitEvent(w, name[w], Outcome(lastResult[w]))>>

(* C6: once the watcher has aborted on a fatal wait failure, the failure    *)
(* is observable outside its background task: the task's JoinHandle is      *)
(* still held by someone who can read the panic out of it, or an event of   *)
(* the watcher has reached the event sink.                                  *)
C6_FatalWaitSurfaced ==
    \A w \in Watchers :
        panicMsg[w] = WaitpidPanic =>
            (joinHandle[w] = "held" \/ eventSent[w] # <<>> \/ InSink(w))

(* C7: an event send that found the receiver of the event sink gone ends    *)
(* the watcher in a panic with nothing put into the sink, the watcher       *)
(* completes normally only after a successful event send, and the same      *)
(* failure on the Exit Handle does not stop it.                             *)
C7_EventSendFailureAborts ==
    \A w \in Watchers :
        /\ eventResult[w] = "closed" =>
              /\ pc[w] = "panicked"
              /\ panicMsg[w] = EventPanic
              /\ eventSent[w] = <<>> /\ ~InSink(w)
        /\ pc[w] = "done" => (eventResult[w] = "ok" /\ Len(eventSent[w]) = 1)
        /\ (exitResult[w] = "closed" /\ eventResult[w] = "ok") => pc[w] = "done"

C7_Witness ==
    \E w \in Watchers :
        /\ blocked[w]
        /\ eventResult[w] = "closed"
        /\ exitResult[w] = "ok"
        /\ pc[w] = "panicked"
        /\ panicMsg[w] = EventPanic

(* C8: the recv() calls of the Wait half resolve to a value at most once,   *)
(* that value is the one the watcher's single send buffered, they resolve   *)
(* to "no value" only when the Signal half is gone with nothing buffered,   *)
(* and a recv() pending when the wait call has failed fatally leads to the  *)
(* Wait half having resolved to "no value" (or having been dropped).        *)
C8_WaitResolves ==
    /\ [](\A w \in Watchers :
            /\ Len(ValuesOf(w)) <= 1
            /\ ValuesOf(w) # <<>> => (exitResult[w] = "ok" /\ ValuesOf(w) = exitSent[w])
            /\ ResolvedNone(w) => (~sigAlive[w] /\ pc[w] \in {"done", "panicked"})
            /\ (ResolvedNone(w) /\ ValuesOf(w) = <<>>) =>
                  (exitResult[w] = "none" /\ panicMsg[w] = WaitpidPanic))
    /\ \A w \in Watchers :
          (lastResult[w] # NoResult /\ IsFatal(lastResult[w]) /\ waitSide[w] = "receiving")
              ~> (waitSide[w] = "dropped" \/ ResolvedNone(w))

C8_Witness ==
    \E w \in Watchers :
        /\ panicMsg[w] = WaitpidPanic
        /\ received[w] = <<None>>
        /\ waitSide[w] = "idle"

(* C9: every wait result puts the watcher into exactly one of four          *)
(* conditions: back at the wait call with no outcome (retry), loop ended    *)
(* with Exit(code) of an Exited result, loop ended with Signaled(signal)    *)
(* of a Signaled result whatever the core-dump flag, or aborted with no     *)
(* outcome (fatal); no transient result ever yields an outcome.             *)
C9_ClassificationTotal ==
    /\ \A r \in WaitResults : Classify(r)[1] \in {"break", "continue", "panic"}
    /\ \A w \in Watchers :
        LET r == lastResult[w] IN
        r # NoResult =>
            /\ r \in WaitResults
            /\ Cardinality({k \in {"retry", "exit", "signaled", "fatal"} :
                    \/ k = "retry" /\ Retried(w)
                    \/ k = "exit" /\ \E c \in ExitCodes : EndedWith(w, <<"Exit", c>>)
                    \/ k = "signaled" /\ \E g \in Signals : EndedWith(w, <<"Signaled", g>>)
                    \/ k = "fatal" /\ Aborted(w)}) = 1
            /\ r[1] = "Exited" => EndedWith(w, <<"Exit", r[2]>>)
            /\ r[1] = "Signaled" => EndedWith(w, <<"Signaled", r[2]>>)
            /\ r[1] \in {"Stopped", "Continued", "PtraceEvent", "PtraceSyscall", "StillAlive"}
                  => Retried(w)
            /\ (r[1] = "Err" /\ r[2] = "EINTR") => Retried(w)
            /\ (r[1] = "Err" /\ r[2] # "EINTR") => Aborted(w)

C9_Witness ==
    \E w \in Watchers :
        /\ lastResult[w] = <<"Signaled", 9, TRUE>>
        /\ status[w] = <<"Signaled", 9>>
        /\ pc[w] = "done"

(* C10: whenever the watcher has sent both, its Global Runtime Event        *)
(* carries the name given to waitpid and the very Termination Outcome it    *)
(* passed to the Exit Handle, in the sink and at the event loop alike.      *)
C10_SameOutcomeToBoth ==
    \A w \in Watchers :
        LET all == eventSent[w] \o EventsOf(eventQ, w) \o EventsOf(delivered, w) IN
        \A i \in DOMAIN all :
            /\ exitSent[w] # <<>>
            /\ all[i].name = name[w]
            /\ name[w] \in Names
            /\ all[i].status = exitSent[w][1]
            /\ all[i].status \in ExitStatus

C10_Witness ==
    \E w \in Watchers :
        /\ received[w] = << <<"Signaled", 9>> >>
        /\ EventsOf(delivered, w) = <<ExitEvent(w, name[w], <<"Signaled", 9>>)>>

(* C11: a recv() pending on the Wait half when the loop has ended with an   *)
(* outcome resolves to that outcome (unless its holder drops the Wait       *)
(* half), with nothing assumed of the event loop; in particular the value   *)
(* is received while the watcher is still parked on the full event sink.    *)
C11_WaitReleasedWithoutEventLoop ==
    \A w \in Watchers :
        (pc[w] = "send_exit" /\ waitSide[w] = "receiving")
            ~> (waitSide[w] = "dropped" \/ ValuesOf(w) = <<status[w]>>)

C11_Witness ==
    \E w \in Watchers :
        /\ pc[w] = "send_event"
        /\ blocked[w]
        /\ Len(eventQ) = EventCap
        /\ eventSent[w] = <<>>
        /\ received[w] = <<status[w]>>

(* C12: once the kernel has returned a terminal result, the watcher goes    *)
(* on to end normally with exactly one Global Runtime Event, which the      *)
(* event loop gets, unless the receiver of the event sink goes away;        *)
(* nothing the holder of the Wait half does (receive, never receive, drop)  *)
(* stops it.                                                                *)
C12_RunsToCompletion ==
    \A w \in Watchers :
        (lastResult[w] # NoResult /\ IsTerminal(lastResult[w]))
            ~> \/ ~eventRxAlive
               \/ /\ pc[w] = "done"
                  /\ eventSent[w] = <<ExitEvent(w, name[w], Outcome(lastResult[w]))>>
                  /\ EventsOf(delivered, w) = eventSent[w]

C12_Witness ==
    \E w \in Watchers :
        /\ pc[w] = "done"
        /\ waitSide[w] = "dropped"
        /\ exitResult[w] = "ok"
        /\ received[w] = <<>>
        /\ blocked[w]
        /\ eventRxAlive
        /\ Len(EventsOf(delivered, w)) = 1

\* the state of the event sink shared by the watchers is consistent
SinkConsistent ==
    /\ Len(eventQ) <= EventCap
    /\ \A i \in DOMAIN (eventQ \o delivered) :
          LET e == (eventQ \o delivered)[i] IN
          e.kind = "Exit" =>
              /\ e.src \in Watchers
              /\ e = ExitEvent(e.src, name[e.src], Outcome(lastResult[e.src]))
    /\ \A w \in Watchers :
          /\ Len(EventsOf(delivered, w)) <= 1
          /\ eventResult[w] = "ok" =>
                /\ pc[w] = "done"
                /\ eventSent[w] = <<ExitEvent(w, name[w], Outcome(lastResult[w]))>>
                /\ eventRxAlive => EventsOf(eventQ, w) \o EventsOf(delivered, w) = eventSent[w]
          /\ (lastResult[w] # NoResult /\ IsTerminal(lastResult[w]) /\ eventResult[w] = "none") =>
                /\ pc[w] \in {"send_exit", "send_event"}
                /\ eventSent[w] = <<>> /\ ~InSink(w)
          /\ (pc[w] = "send_event" /\ eventRxAlive /\ Len(eventQ) = EventCap) =>
                ~ENABLED EventSend(w)

(* C13: with two watchers sending to the same event sink, each watcher      *)
(* whose send was taken has exactly one event in the sink or at the event   *)
(* loop (none lost, none twice) for as long as the receiver exists; every   *)
(* Exit event carries the name and the outcome of the watcher that built    *)
(* it; a watcher that finds the sink full stays at its send with its event  *)
(* unsent until there is room or the receiver is gone; and every watcher    *)
(* that got a terminal result gets its event into the sink, unless the      *)
(* receiver goes away.                                                      *)
C13_ConcurrentSends ==
    /\ []SinkConsistent
    /\ \A w \in Watchers :
          (lastResult[w] # NoResult /\ IsTerminal(lastResult[w]))
              ~> \/ ~eventRxAlive
                 \/ /\ IsTerminal(lastResult[w])
                    /\ EventsOf(eventQ, w) \o EventsOf(delivered, w)
                          = <<ExitEvent(w, name[w], Outcome(lastResult[w]))>>

C13_Witness ==
    \E v, w \in Watchers :
        /\ v # w
        /\ pc[v] = "done" /\ pc[w] = "done"
        /\ blocked[w]
        /\ name[v] # name[w]
        /\ status[v] # status[w]
        /\ delivered = <<ExitEvent(v, name[v], status[v]), ExitEvent(w, name[w], status[w])>>

(* C14: whatever u32 value is given to waitpid as the pid, every kernel     *)
(* wait call is issued for a positive process id that is numerically the    *)
(* value given (so for that one process, not for a process group or for     *)
(* any child).                                                              *)
C14_WaitsOnGivenPid ==
    \A w \in Watchers :
        waitedOn[w] # NoPid =>
            /\ waitedOn[w][1] > 0
            /\ pid[w][1] < 32768
            /\ waitedOn[w][1] = pid[w][1] * 65536 + pid[w][2]

(* C15: from a state in which the last wait call returned a terminal        *)
(* result, no step issues another wait call or classifies again: the        *)
(* number of calls, the result, the outcome and the id waited on stay as    *)
(* they are, the watcher never is back at the wait call, and nothing is     *)
(* sent a second time.                                                      *)
C15_TerminalIsLastWait ==
    [][\A w \in Watchers :
          (lastResult[w] # NoResult /\ IsTerminal(lastResult[w])) =>
              /\ calls'[w] = calls[w]
              /\ retries'[w] = retries[w]
              /\ lastResult'[w] = lastResult[w]
              /\ status'[w] = status[w]
              /\ waitedOn'[w] = waitedOn[w]
              /\ pc'[w] \in {"send_exit", "send_event", "done", "panicked"}
              /\ Len(exitSent'[w]) <= 1
              /\ Len(eventSent'[w]) <= 1]_vars

C15_Witness ==
    \E w \in Watchers :
        /\ lastResult[w] = <<"Signaled", 15, FALSE>>
        /\ calls[w] = 3 /\ retries[w] = 2
        /\ pc[w] = "done"
        /\ received[w] = << <<"Signaled", 15>>, None >>
        /\ Len(EventsOf(delivered, w)) = 1

(* C16: once waitpid has handed the closure to spawn_blocking, its return   *)
(* is possible at once, whatever the closure is doing and whether or not    *)
(* any wait call has returned; and the closure's wait call is possible      *)
(* whether or not waitpid has returned.                                     *)
C16_StartDoesNotWait ==
    \A w \in Watchers :
        /\ caller[w] = "spawned" => ENABLED Return(w)
        /\ (caller[w] \in {"spawned", "returned"} /\ pc[w] = "wait" /\ calls[w] < MaxWaits)
              => ENABLED WaitStep(w)

C16_Witness ==
    \E w \in Watchers :
        /\ caller[w] = "returned"
        /\ pc[w] = "wait"
        /\ calls[w] = 0
        /\ lastResult[w] = NoResult

(* C17: whenever the watcher is at the send on the Exit Handle, the send    *)
(* can complete at once: the channel is never full there, whether the       *)
(* holder of the Wait half is receiving, idle or gone, so the step to the   *)
(* event send is always possible; the channel never holds more than the     *)
(* one value.                                                               *)
C17_ExitSendNeverBlocks ==
    \A w \in Watchers :
        /\ Len(exitBuf[w]) <= ExitHandleCap
        /\ pc[w] = "send_exit" =>
              /\ exitBuf[w] = <<>>
              /\ BlockingSend(waitSide[w] # "dropped", Len(exitBuf[w]), ExitHandleCap) # "full"
              /\ ENABLED ExitSend(w)
        /\ pc[w] \in {"send_event", "done"} => exitResult[w] \in {"ok", "closed"}

C17_Witness ==
    \E w \in Watchers :
        /\ pc[w] = "done"
        /\ waitSide[w] = "idle"
        /\ received[w] = <<>>
        /\ exitBuf[w] = <<status[w]>>
        /\ ~blocked[w]
        /\ Len(EventsOf(delivered, w)) = 1

(***************************************************************************)
(* nstar's containers table (src/nstar/src/pretty.rs, containers).         *)
(***************************************************************************)

\* largest number of containers handed to containers()
MaxContainers == 3

\* manifest names as their UTF-8 bytes: "B", "a", "ab", "b"
ContainerNames == {<<66>>, <<97>>, <<97, 98>>, <<98>>}

\* manifest.init: Option, here a sequence of at most one element
NoInit == <<>>
SomeInit == <<"/bin/init">>

Containers == [name : ContainerNames, init : {NoInit, SomeInit}]

ContainerSlices == UNION {[1..n -> Containers] : n \in 0..MaxContainers}

\* Ord on the names: byte-wise lexicographic, a proper prefix is smaller
StrLess(a, b) ==
    \E i \in 1..Len(b) :
        /\ \A j \in 1..(i - 1) : IF j <= Len(a) THEN a[j] = b[j] ELSE FALSE
        /\ IF i > Len(a) THEN TRUE ELSE a[i] < b[i]

\* Option::is_none
IsNone(o) == o = <<>>

\* the order of the two sort keys: the name, and init.is_none() (false < true)
KeyLess(k, a, b) ==
    IF k = "name" THEN StrLess(a.name, b.name)
    ELSE ~IsNone(a.init) /\ IsNone(b.init)

\* x put behind every element of the sorted s that is not greater than it
InsertByKey(k, x, s) ==
    LET after == {i \in 1..Len(s) : KeyLess(k, x, s[i])}
        at == IF after = {} THEN Len(s) + 1
              ELSE CHOOSE i \in after : \A j \in after : i <= j
    IN  SubSeq(s, 1, at - 1) \o <<x>> \o SubSeq(s, at, Len(s))

RECURSIVE SortedByKey(_, _)
\* Itertools::sorted_by_key: a stable sort
SortedByKey(k, s) ==
    IF s = <<>> THEN <<>>
    ELSE InsertByKey(k, s[Len(s)], SortedByKey(k, SubSeq(s, 1, Len(s) - 1)))

\* the two sorts applied in the other order
SortedByInitThenName(cs) == SortedByKey("name", SortedByKey("init", cs))

\* .sorted_by_key(|c| &c.manifest.name).sorted_by_key(|c| c.manifest.init.is_none())
SortedContainers(cs) == SortedByKey("init", SortedByKey("name", cs))

\* the name cell and the type cell of a container's row
TableRow(c) == [name |-> c.name, type |-> IF IsNone(c.init) THEN "Resource" ELSE "App"]

\* containers() is called with a slice of containers
TableInit ==
    /\ Fresh({})
    /\ pid = [w \in Watchers |-> TypicalPid]
    /\ containersIn \in ContainerSlices
    /\ sorted = <<>>
    /\ table = <<>>
    /\ tpc = "start"

\* the iterator of the for loop is built: both sorts run
SortContainers ==
    /\ tpc = "start"
    /\ sorted' = SortedContainers(containersIn)
    /\ tpc' = "rows"
    /\ UNCHANGED <<containersIn, table>>
    /\ UNCHANGED <<pid, waitedOn, callerVars, pc, name, loopVars, panicMsg, sigAlive, waitVars,
                   exitVars, eventVars, sinkVars>>

\* one turn of the for loop: table.add_row
AddRow ==
    /\ tpc = "rows"
    /\ Len(table) < Len(sorted)
    /\ table' = Append(table, TableRow(sorted[Len(table) + 1]))
    /\ UNCHANGED <<containersIn, sorted, tpc>>
    /\ UNCHANGED <<pid, waitedOn, callerVars, pc, name, loopVars, panicMsg, sigAlive, waitVars,
                   exitVars, eventVars, sinkVars>>

\* the loop is over: print_table writes the rows in the table's order
PrintTable ==
    /\ tpc = "rows"
    /\ Len(table) = Len(sorted)
    /\ tpc' = "done"
    /\ UNCHANGED <<containersIn, sorted, table>>
    /\ UNCHANGED <<pid, waitedOn, callerVars, pc, name, loopVars, panicMsg, sigAlive, waitVars,
                   exitVars, eventVars, sinkVars>>

TableNext == SortContainers \/ AddRow \/ PrintTable

TableSpec == TableInit /\ [][TableNext]_vars

\* how many times x occurs in s
Occurrences(s, x) == Cardinality({i \in DOMAIN s : s[i] = x})

(* C18: the finished containers table has one row per input container,     *)
(* every App row (container with an init) stands before every Resource row *)
(* (container without one), and within each of the two groups the names    *)
(* never descend, whatever the order of the input.                         *)
C18_TableSorted ==
    tpc = "done" =>
        /\ Len(table) = Len(containersIn)
        /\ \A c \in Containers :
              Occurrences(table, TableRow(c)) = Occurrences(containersIn, c)
        /\ \A i, j \in DOMAIN table :
              i < j =>
                /\ ~(table[i].type = "Resource" /\ table[j].type = "App")
                /\ table[i].type = table[j].type => ~StrLess(table[j].name, table[i].name)

C18_Witness ==
    /\ tpc = "done"
    /\ Len(table) = MaxContainers
    /\ IsNone(containersIn[1].init)
    /\ \E i, j \in DOMAIN containersIn :
          /\ i < j
          /\ ~IsNone(containersIn[i].init)
          /\ ~IsNone(containersIn[j].init)
          /\ StrLess(containersIn[j].name, containersIn[i].name)
    /\ table[1].type = "App"
    /\ table[Len(table)].type = "Resource"

====
